---------------------------- MODULE Spec2Model ----------------------------
(***************************************************************************)
(* A model of generate_blog.py: the aggregator fetch_and_process_data, the *)
(* renderer generate_html, and the module-level driver that runs them on   *)
(* the file "index.html".                                                  *)
(*                                                                         *)
(* Text is a sequence of characters (one-character strings).               *)
(*                                                                         *)
(* A cell of the data frame is NaN (the empty tuple) or <<v>>.             *)
(***************************************************************************)
EXTENDS Integers, Sequences, FiniteSets, TLC

\* ------------------------------------------------------------------ bounds

\* Largest number of records in an enumerated CSV.
MaxRecords == 2
\* Largest number of pieces an enumerated template is put together from.
MaxPieces == 4

\* ------------------------------------------------------------------ cells

NaN == <<>>
Val(v) == <<v>>
IsNaN(c) == c = NaN

\* The team names of the enumerated CSVs, in the order groupby sorts them.
TeamOrder == << <<"A">>, <<"B">>, <<"C">> >>
Teams == {TeamOrder[i] : i \in 1..Len(TeamOrder)}

TheDate == <<"2", "0", "2", "4", "-", "0", "1", "-", "0", "1">>
\* The goal values of the enumerated CSVs: enough for a win, a draw and a loss.
Goals == {0, 1}
GoalCells == {NaN} \cup {Val(g) : g \in Goals}
DateCells == {NaN, Val(TheDate)}

\* One row of the CSV: a match between two different teams, any of whose
\* date and goal cells may be empty.
MatchRecords ==
    {r \in [Date : DateCells, HOME : {Val(t) : t \in Teams}, AWAY : {Val(t) : t \in Teams},
            H_GOALS : GoalCells, A_GOALS : GoalCells] : r.HOME # r.AWAY}

\* A number for each record, different for different records.
TeamNo(t) == CHOOSE i \in 1..Len(TeamOrder) : TeamOrder[i] = t
CellNo(c) == IF IsNaN(c) THEN 0 ELSE 1 + c[1]
RecordNo(r) ==
    (((IF IsNaN(r.Date) THEN 0 ELSE 1) * 4 + TeamNo(r.HOME[1])) * 4 + TeamNo(r.AWAY[1])) * 16
        + CellNo(r.H_GOALS) * 4 + CellNo(r.A_GOALS)

RECURSIVE OrderedSeqsUpTo(_, _)
\* The sequences of at most n records whose numbers never fall.
OrderedSeqsUpTo(S, n) ==
    IF n = 0 THEN {<<>>}
    ELSE LET shorter == OrderedSeqsUpTo(S, n - 1)
             longest == {q \in shorter : Len(q) = n - 1}
             fits(s, x) == s = <<>> \/ RecordNo(s[Len(s)]) <= RecordNo(x)
         IN  shorter \cup {Append(p[1], p[2]) : p \in {q \in longest \X S : fits(q[1], q[2])}}

\* Every CSV the aggregator is checked on.  No step of the aggregation looks
\* at the place of a row in the frame (lines 22-36 work row by row, lines
\* 39-44 count and sum per team, and the summary comes out sorted by team), so
\* of the CSVs that hold the same records one is taken: the one in rising order.
AllInputs == OrderedSeqsUpTo(MatchRecords, MaxRecords)

\* ------------------------------------------------- fetch_and_process_data

Columns == {"Date", "HOME", "AWAY", "H_GOALS", "A_GOALS"}

\* df.dropna(axis=1, how='all'): the columns that keep at least one value.
DropNaColumns(d) == {c \in Columns : \E i \in 1..Len(d) : ~IsNaN(d[i][c])}

\* Sub with an empty cell read as 0, as after a fillna(0).
Sub_FillZero(a, b) ==
    Val((IF IsNaN(a) THEN 0 ELSE a[1]) - (IF IsNaN(b) THEN 0 ELSE b[1]))

\* A binary arithmetic operation on two cells: NaN when either is NaN.
Sub(a, b) == IF IsNaN(a) \/ IsNaN(b) THEN NaN ELSE Val(a[1] - b[1])

HomeDf(d) ==
    [i \in 1..Len(d) |->
        [Date |-> d[i].Date, TEAM |-> d[i].HOME,
         GOALS_FOR |-> d[i].H_GOALS, GOALS_AGAINST |-> d[i].A_GOALS,
         RESULT |-> Sub(d[i].H_GOALS, d[i].A_GOALS)]]

AwayDf(d) ==
    [i \in 1..Len(d) |->
        [Date |-> d[i].Date, TEAM |-> d[i].AWAY,
         GOALS_FOR |-> d[i].A_GOALS, GOALS_AGAINST |-> d[i].H_GOALS,
         RESULT |-> Sub(d[i].A_GOALS, d[i].H_GOALS)]]

\* A comparison with NaN is False; astype(int) makes it 0.
IsWin(res) == IF ~IsNaN(res) /\ res[1] > 0 THEN 1 ELSE 0
IsDraw(res) == IF ~IsNaN(res) /\ res[1] = 0 THEN 1 ELSE 0
IsLoss(res) == IF ~IsNaN(res) /\ res[1] < 0 THEN 1 ELSE 0

\* Concat with the away view left out.
Concat_HomeOnly(h, a) == h

\* pd.concat([home_df, away_df], ignore_index=True)
Concat(h, a) == h \o a

AllMatches(d) ==
    LET both == Concat(HomeDf(d), AwayDf(d))
    IN  [i \in 1..Len(both) |->
            [Date |-> both[i].Date, TEAM |-> both[i].TEAM,
             GOALS_FOR |-> both[i].GOALS_FOR, GOALS_AGAINST |-> both[i].GOALS_AGAINST,
             RESULT |-> both[i].RESULT,
             IS_WIN |-> IsWin(both[i].RESULT), IS_DRAW |-> IsDraw(both[i].RESULT),
             IS_LOSS |-> IsLoss(both[i].RESULT)]]

\* groupby('TEAM'): the distinct non-NaN keys, sorted.
GroupKeys(am) ==
    LET present(t) == \E i \in 1..Len(am) : am[i].TEAM = Val(t)
    IN  SelectSeq(TeamOrder, present)

\* The rows of one group, in frame order.
Group(am, t) == LET mine(row) == row.TEAM = Val(t) IN SelectSeq(am, mine)

\* 'count': the number of non-NaN cells of a column.
Count(g, col) == Cardinality({i \in 1..Len(g) : ~IsNaN(g[i][col])})

\* 'sum' of a column of cells: NaN cells are skipped.
RECURSIVE SumCells(_, _)
SumCells(g, col) ==
    IF g = <<>> THEN 0
    ELSE (IF IsNaN(g[1][col]) THEN 0 ELSE g[1][col][1]) + SumCells(Tail(g), col)

\* 'sum' of the int column IS_WIN.
RECURSIVE SumWins(_)
SumWins(g) == IF g = <<>> THEN 0 ELSE g[1].IS_WIN + SumWins(Tail(g))

\* A goals column read from the CSV is float64 as soon as one of its cells is
\* empty, and then both goal columns of the concatenated frame are.
GoalsFloat(d) == \E i \in 1..Len(d) : IsNaN(d[i].H_GOALS) \/ IsNaN(d[i].A_GOALS)

\* n rounded half-to-even to an integer, for n = num / den.
RoundHalfEven(num, den) ==
    LET q == num \div den
        r == num % den
    IN  IF 2 * r < den THEN q
        ELSE IF 2 * r > den THEN q + 1
        ELSE IF q % 2 = 0 THEN q ELSE q + 1

Fin(h) == [k |-> "fin", v |-> h]
Inf == [k |-> "inf", v |-> 0]
NaNRate == [k |-> "nan", v |-> 0]

\* (total_wins / matches_played).round(2), in hundredths.  A float division
\* by zero raises nothing: it gives inf, or nan for 0 / 0.
WinRate(wins, played) ==
    IF played = 0 THEN (IF wins = 0 THEN NaNRate ELSE Inf)
    ELSE Fin(RoundHalfEven(100 * wins, played))

TeamSummary(d) ==
    LET am == AllMatches(d)
        keys == GroupKeys(am)
    IN  [i \in 1..Len(keys) |->
            LET g == Group(am, keys[i])
                played == Count(g, "Date")
                wins == SumWins(g)
            IN  [TEAM |-> keys[i],
                 matches_played |-> played,
                 total_goals_for |-> SumCells(g, "GOALS_FOR"),
                 total_goals_against |-> SumCells(g, "GOALS_AGAINST"),
                 total_wins |-> wins,
                 win_rate |-> WinRate(wins, played),
                 float_goals |-> GoalsFloat(d)]]

\* The order sort_values puts win rates in: a < b.  NaN is below nothing and
\* nothing is below NaN (it is set aside and placed last).
RateLess(a, b) ==
    /\ a.k # "nan"
    /\ b.k # "nan"
    /\ \/ a.k = "fin" /\ b.k = "inf"
       \/ a.k = "fin" /\ b.k = "fin" /\ a.v < b.v

\* TopTeams with the sort ascending: a row no row is below.
TopTeams_Ascending(ts) ==
    LET rows == {ts[i] : i \in 1..Len(ts)}
        rated == {x \in rows : x.win_rate.k # "nan"}
    IN  IF rated = {} THEN rows
        ELSE {x \in rated : \A y \in rated : ~RateLess(y.win_rate, x.win_rate)}

\* sort_values('win_rate', ascending=False).iloc[0]: a row no row is above;
\* a NaN row only when every row is NaN.  The default sort is not stable, so
\* among equal rates any row may come first.
TopTeams(ts) ==
    LET rows == {ts[i] : i \in 1..Len(ts)}
        rated == {x \in rows : x.win_rate.k # "nan"}
    IN  IF rated = {} THEN rows
        ELSE {x \in rated : \A y \in rated : ~RateLess(x.win_rate, y.win_rate)}

\* ------------------------------------------------------------------ text

Digits == <<"0", "1", "2", "3", "4", "5", "6", "7", "8", "9">>

\* str(n) of a non-negative int.
RECURSIVE IntStr(_)
IntStr(n) == IF n < 10 THEN <<Digits[n + 1]>> ELSE IntStr(n \div 10) \o <<Digits[(n % 10) + 1]>>

\* str() of a sum of goals: "2" from an int64 column, "2.0" from a float64 one.
GoalsStr(n, isFloat) == IF isFloat THEN IntStr(n) \o <<".", "0">> ELSE IntStr(n)

\* f"{win_rate:.2f}"
RateStr(w) ==
    IF w.k = "inf" THEN <<"i", "n", "f">>
    ELSE IF w.k = "nan" THEN <<"n", "a", "n">>
    ELSE IntStr(w.v \div 100) \o <<".", Digits[((w.v % 100) \div 10) + 1], Digits[(w.v % 10) + 1]>>

\* Line 52: the finding names the top team and its win rate.
FindingText(team, w) ==
    <<"T", "h", "e", " ", "t", "e", "a", "m", " ", "w", "i", "t", "h", " ", "t", "h", "e", " ",
      "h", "i", "g", "h", "e", "s", "t", " ", "w", "i", "n", " ", "r", "a", "t", "e", " ", "i", "s", " ">>
        \o team
        \o <<" ", "w", "i", "t", "h", " ", "a", " ", "w", "i", "n", " ", "r", "a", "t", "e", " ", "o", "f", " ">>
        \o RateStr(w) \o <<".">>

\* The findings list: one finding, for a top team.
Findings(top) == <<FindingText(top.TEAM, top.win_rate)>>

\* ---------------------------------------------------------- generate_html

LAST_UPDATED == <<"{", "{", "l", "a", "s", "t", "_", "u", "p", "d", "a", "t", "e", "d", "}", "}">>
TEAM_SUMMARY_ROWS ==
    <<"{", "{", "t", "e", "a", "m", "_", "s", "u", "m", "m", "a", "r", "y", "_", "r", "o", "w", "s", "}", "}">>
INTERESTING_FINDINGS ==
    <<"{", "{", "i", "n", "t", "e", "r", "e", "s", "t", "i", "n", "g", "_", "f", "i", "n", "d", "i", "n", "g", "s",
      "}", "}">>
Tokens == {LAST_UPDATED, TEAM_SUMMARY_ROWS, INTERESTING_FINDINGS}

Sp(n) == [i \in 1..n |-> " "]

\* One <td> line of the row fragment.
Td(text) == <<"\n">> \o Sp(12) \o <<"<", "t", "d", ">">> \o text \o <<"<", "/", "t", "d", ">">>

\* The f-string of lines 68-77 for one row of the summary.
RowFragment(row) ==
    <<"\n">> \o Sp(8) \o <<"<", "t", "r", ">">>
        \o Td(row.TEAM)
        \o Td(IntStr(row.matches_played))
        \o Td(GoalsStr(row.total_goals_for, row.float_goals))
        \o Td(GoalsStr(row.total_goals_against, row.float_goals))
        \o Td(IntStr(row.total_wins))
        \o Td(RateStr(row.win_rate))
        \o <<"\n">> \o Sp(8) \o <<"<", "/", "t", "r", ">">> \o <<"\n">> \o Sp(8)

RECURSIVE SummaryRows(_)
SummaryRows(ts) == IF ts = <<>> THEN <<>> ELSE RowFragment(ts[1]) \o SummaryRows(Tail(ts))

RECURSIVE FindingItems(_)
FindingItems(fl) ==
    IF fl = <<>> THEN <<>>
    ELSE <<"<", "l", "i", ">">> \o fl[1] \o <<"<", "/", "l", "i", ">">> \o FindingItems(Tail(fl))

\* The places where old occurs in s at or after place i.
Hits(s, old, i) == {j \in i..(Len(s) - Len(old) + 1) : SubSeq(s, j, j + Len(old) - 1) = old}

\* str.replace(old, new) from place i on: every occurrence, found left to
\* right without overlap; the text put in is not searched again.
RECURSIVE ReplaceFrom(_, _, _, _)
ReplaceFrom(s, old, new, i) ==
    LET hits == Hits(s, old, i)
    IN  IF hits = {} THEN SubSeq(s, i, Len(s))
        ELSE LET j == CHOOSE h \in hits : \A k \in hits : h <= k
             IN  SubSeq(s, i, j - 1) \o new \o ReplaceFrom(s, old, new, j + Len(old))

\* Replace with only the first occurrence replaced, as with count=1.
Replace_FirstOnly(s, old, new) ==
    LET hits == Hits(s, old, 1)
    IN  IF hits = {} THEN s
        ELSE LET j == CHOOSE h \in hits : \A k \in hits : h <= k
             IN  SubSeq(s, 1, j - 1) \o new \o SubSeq(s, j + Len(old), Len(s))

Replace(s, old, new) == ReplaceFrom(s, old, new, 1)

\* Lines 89-91: the three replacements, in the order the code makes them.
Substitute(template, timestamp, rows, items) ==
    Replace(Replace(Replace(template, LAST_UPDATED, timestamp), TEAM_SUMMARY_ROWS, rows),
            INTERESTING_FINDINGS, items)

\* datetime.now().strftime("%Y-%m-%d %H:%M:%S"): the clock values of the model.
Timestamps ==
    {<<"2", "0", "2", "4", "-", "0", "1", "-", "0", "1", " ", "0", "0", ":", "0", "0", ":", "0", "0">>,
     <<"2", "0", "2", "4", "-", "0", "1", "-", "0", "2", " ", "1", "2", ":", "3", "0", ":", "5", "9">>}

TEMPLATE_PATH == "index.html"
OUTPUT_PATH == "index.html"
Paths == {TEMPLATE_PATH, OUTPUT_PATH}

\* open(path, "w"): the file is cut to length 0 when it is opened.
Truncate(files, path) == [files EXCEPT ![path] = <<>>]

\* write() and close() on a file opened by this run: the text goes in at
\* place 0 of whatever the file holds by then; what lies beyond its end stays.
WriteAt0(files, path, text) ==
    [files EXCEPT ![path] = text \o SubSeq(files[path], Len(text) + 1, Len(files[path]))]

\* ------------------------------------------------------------------ state

Runs == {1, 2}

VARIABLES
    pc,                   \* where each run of the script is
    df,                   \* the frame read_csv returned to the run
    team_summary,         \* the run's summary frame: a sequence of rows
    findings,             \* the run's list of findings
    team_summary_rows,    \* generate_html's local of that name
    interesting_findings, \* generate_html's local of that name
    html_content,         \* generate_html's local of that name
    fs,                   \* the files on disk: path -> text
    template0,            \* history: the template as its author left it
    before,               \* history: the output file's text when the run began
    last                  \* history: the run that wrote the output file last, or 0

vars == <<pc, df, team_summary, findings, team_summary_rows, interesting_findings,
          html_content, fs, template0, before, last>>

locals == <<df, team_summary, findings, team_summary_rows, interesting_findings, html_content>>

EarlyFailures == {"failed_fetch", "failed_process", "failed_template"}
Failures == EarlyFailures \cup {"failed_open"}
Ended == Failures \cup {"done", "off"}

\* The template of the repository's page, with each token once.
PageTemplate ==
    <<"<", "p", ">">> \o LAST_UPDATED \o <<"<", "/", "p", ">", "<", "t", "a", "b", "l", "e", ">">>
        \o TEAM_SUMMARY_ROWS \o <<"<", "/", "t", "a", "b", "l", "e", ">", "<", "u", "l", ">">>
        \o INTERESTING_FINDINGS \o <<"<", "/", "u", "l", ">">>

InitWith(pc0, template) ==
    /\ pc = pc0
    /\ df = [r \in Runs |-> <<>>]
    /\ team_summary = [r \in Runs |-> <<>>]
    /\ findings = [r \in Runs |-> <<>>]
    /\ team_summary_rows = [r \in Runs |-> <<>>]
    /\ interesting_findings = [r \in Runs |-> <<>>]
    /\ html_content = [r \in Runs |-> <<>>]
    /\ fs = [p \in Paths |-> template]
    /\ template0 = template
    /\ before = [r \in Runs |-> template]
    /\ last = 0

\* ---------------------------------------------------------------- actions

\* Line 16: read_csv returns a frame, one of those the source may hold.
Fetch(r, source) ==
    /\ pc[r] = "start"
    /\ pc' = [pc EXCEPT ![r] = "fetched"]
    /\ \E d \in source : df' = [df EXCEPT ![r] = d]
    /\ before' = [before EXCEPT ![r] = fs[OUTPUT_PATH]]
    /\ UNCHANGED <<team_summary, findings, team_summary_rows, interesting_findings,
                   html_content, fs, template0, last>>

\* Line 16: read_csv raises (the source is unreachable or is no CSV).
FetchFail(r) ==
    /\ pc[r] = "start"
    /\ pc' = [pc EXCEPT ![r] = "failed_fetch"]
    /\ before' = [before EXCEPT ![r] = fs[OUTPUT_PATH]]
    /\ UNCHANGED <<locals, fs, template0, last>>

\* Lines 22 and 26 raise KeyError when dropna dropped a column they select;
\* line 51 raises IndexError when the summary has no row.
CanProcess(d) == Columns \subseteq DropNaColumns(d) /\ TeamSummary(d) # <<>>

\* Lines 19-54.
Process(r) ==
    /\ pc[r] = "fetched"
    /\ CanProcess(df[r])
    /\ LET summary == TeamSummary(df[r])
       IN  \E top_team \in TopTeams(summary) :
              /\ team_summary' = [team_summary EXCEPT ![r] = summary]
              /\ findings' = [findings EXCEPT ![r] = Findings(top_team)]
    /\ pc' = [pc EXCEPT ![r] = "processed"]
    /\ UNCHANGED <<df, team_summary_rows, interesting_findings, html_content,
                   fs, template0, before, last>>

ProcessFail(r) ==
    /\ pc[r] = "fetched"
    /\ ~CanProcess(df[r])
    /\ pc' = [pc EXCEPT ![r] = "failed_process"]
    /\ UNCHANGED <<locals, fs, template0, before, last>>

\* Lines 66-82.
BuildFragments(r) ==
    /\ pc[r] = "processed"
    /\ team_summary_rows' = [team_summary_rows EXCEPT ![r] = SummaryRows(team_summary[r])]
    /\ interesting_findings' = [interesting_findings EXCEPT ![r] = FindingItems(findings[r])]
    /\ pc' = [pc EXCEPT ![r] = "built"]
    /\ UNCHANGED <<df, team_summary, findings, html_content, fs, template0, before, last>>

\* Lines 85-86.
ReadTemplate(r) ==
    /\ pc[r] = "built"
    /\ html_content' = [html_content EXCEPT ![r] = fs[TEMPLATE_PATH]]
    /\ pc' = [pc EXCEPT ![r] = "read"]
    /\ UNCHANGED <<df, team_summary, findings, team_summary_rows, interesting_findings,
                   fs, template0, before, last>>

\* ReadTemplateFail with the output file opened for writing before the
\* template is opened for reading.
ReadTemplateFail_OutputOpenedFirst(r) ==
    /\ pc[r] = "built"
    /\ pc' = [pc EXCEPT ![r] = "failed_template"]
    /\ fs' = Truncate(fs, OUTPUT_PATH)
    /\ UNCHANGED <<locals, template0, before, last>>

\* Line 85: open raises (the template cannot be read).
ReadTemplateFail(r) ==
    /\ pc[r] = "built"
    /\ pc' = [pc EXCEPT ![r] = "failed_template"]
    /\ UNCHANGED <<locals, fs, template0, before, last>>

\* Lines 89-91.
ReplacePlaceholders(r) ==
    /\ pc[r] = "read"
    /\ \E timestamp \in Timestamps :
          html_content' = [html_content EXCEPT ![r] =
              Substitute(html_content[r], timestamp, team_summary_rows[r],
                         interesting_findings[r])]
    /\ pc' = [pc EXCEPT ![r] = "replaced"]
    /\ UNCHANGED <<df, team_summary, findings, team_summary_rows, interesting_findings,
                   fs, template0, before, last>>

\* Line 94.
OpenOutput(r) ==
    /\ pc[r] = "replaced"
    /\ fs' = Truncate(fs, OUTPUT_PATH)
    /\ pc' = [pc EXCEPT ![r] = "opened"]
    /\ UNCHANGED <<locals, template0, before, last>>

\* Line 94: open raises (the destination cannot be written).
OpenOutputFail(r) ==
    /\ pc[r] = "replaced"
    /\ pc' = [pc EXCEPT ![r] = "failed_open"]
    /\ UNCHANGED <<locals, fs, template0, before, last>>

\* Line 95 and the end of the with block.
WriteOutput(r) ==
    /\ pc[r] = "opened"
    /\ fs' = WriteAt0(fs, OUTPUT_PATH, html_content[r])
    /\ last' = r
    /\ pc' = [pc EXCEPT ![r] = "done"]
    /\ UNCHANGED <<locals, template0, before>>

\* ------------------------------------------------ the aggregator, any CSV

InitAgg == InitWith([r \in Runs |-> IF r = 1 THEN "start" ELSE "off"], PageTemplate)

NextAgg ==
    \/ Fetch(1, AllInputs)
    \/ FetchFail(1)
    \/ Process(1)
    \/ ProcessFail(1)

SpecAgg == InitAgg /\ [][NextAgg]_vars

\* ------------------------------------------- the renderer, any arguments

\* The pieces templates are put together from: the three tokens, and two
\* texts in which a token stands between the two halves of another one.
Pieces ==
    {LAST_UPDATED, TEAM_SUMMARY_ROWS, INTERESTING_FINDINGS,
     <<"{", "{", "l", "a", "s", "t", "_">> \o TEAM_SUMMARY_ROWS
         \o <<"u", "p", "d", "a", "t", "e", "d", "}", "}">>,
     <<"{", "{", "t", "e", "a", "m", "_", "s", "u", "m", "m", "a", "r", "y", "_">> \o INTERESTING_FINDINGS
         \o <<"r", "o", "w", "s", "}", "}">>}

RECURSIVE PieceTexts(_)
\* The texts made of at most n pieces.
PieceTexts(n) ==
    IF n = 0 THEN {<<>>}
    ELSE PieceTexts(n - 1) \cup {t \o p : t \in PieceTexts(n - 1), p \in Pieces}

Contains(s, old) == Hits(s, old, 1) # {}
ContainsToken(s) == \E tok \in Tokens : Contains(s, tok)

\* The templates generate_html is checked on: each holds the three tokens.
RenderTemplates ==
    {PageTemplate} \cup {t \in PieceTexts(MaxPieces) : \A tok \in Tokens : Contains(t, tok)}

\* The team names generate_html is checked on: a plain one, and names that
\* hold a token.
RenderNames == {<<"A">>, LAST_UPDATED, TEAM_SUMMARY_ROWS, INTERESTING_FINDINGS}

RenderRow(name) ==
    [TEAM |-> name, matches_played |-> 1, total_goals_for |-> 2, total_goals_against |-> 0,
     total_wins |-> 1, win_rate |-> Fin(100), float_goals |-> FALSE]

RenderSummaries ==
    {<<>>, <<RenderRow(<<"A">>), RenderRow(<<"B">>)>>} \cup {<<RenderRow(n)>> : n \in RenderNames}

RenderFindings ==
    {<<>>, <<FindingText(<<"A">>, Fin(100))>>, <<FindingText(TEAM_SUMMARY_ROWS, Fin(100))>>}

InitRender ==
    /\ pc = [r \in Runs |-> IF r = 1 THEN "processed" ELSE "off"]
    /\ df = [r \in Runs |-> <<>>]
    /\ \E ts \in RenderSummaries : team_summary = [r \in Runs |-> IF r = 1 THEN ts ELSE <<>>]
    /\ \E fl \in RenderFindings : findings = [r \in Runs |-> IF r = 1 THEN fl ELSE <<>>]
    /\ team_summary_rows = [r \in Runs |-> <<>>]
    /\ interesting_findings = [r \in Runs |-> <<>>]
    /\ html_content = [r \in Runs |-> <<>>]
    /\ \E template \in RenderTemplates :
          /\ fs = [p \in Paths |-> template]
          /\ template0 = template
          /\ before = [r \in Runs |-> template]
    /\ last = 0

NextRender ==
    \/ BuildFragments(1)
    \/ ReadTemplate(1)
    \/ ReadTemplateFail(1)
    \/ ReplacePlaceholders(1)
    \/ OpenOutput(1)
    \/ OpenOutputFail(1)
    \/ WriteOutput(1)

SpecRender == InitRender /\ [][NextRender]_vars

\* ------------------------------------------------------- runs of the script

Match(home, away, hg, ag) ==
    [Date |-> Val(TheDate), HOME |-> Val(home), AWAY |-> Val(away),
     H_GOALS |-> Val(hg), A_GOALS |-> Val(ag)]

\* What the source may hold when a run fetches it: no record, one match, or
\* two matches among three teams.
RunInputs ==
    {<<>>,
     <<Match(<<"A">>, <<"B">>, 2, 0)>>,
     <<Match(<<"B">>, <<"A">>, 1, 0), Match(<<"C">>, <<"A">>, 1, 1)>>}

\* Lines 104-105 for run r: one step of the script.
Step(r) ==
    \/ Fetch(r, RunInputs)
    \/ FetchFail(r)
    \/ Process(r)
    \/ ProcessFail(r)
    \/ BuildFragments(r)
    \/ ReadTemplate(r)
    \/ ReadTemplateFail(r)
    \/ ReplacePlaceholders(r)
    \/ OpenOutput(r)
    \/ OpenOutputFail(r)
    \/ WriteOutput(r)

InitRuns == InitWith([r \in Runs |-> "start"], PageTemplate)

\* No other run is under way.
Alone(r) == \A o \in Runs \ {r} : pc[o] \in Ended \cup {"start"}

\* Runs one after the other.
NextSeq ==
    \E r \in Runs :
        \/ Alone(r) /\ Fetch(r, RunInputs)
        \/ Alone(r) /\ FetchFail(r)
        \/ Alone(r) /\ Process(r)
        \/ Alone(r) /\ ProcessFail(r)
        \/ Alone(r) /\ BuildFragments(r)
        \/ Alone(r) /\ ReadTemplate(r)
        \/ Alone(r) /\ ReadTemplateFail(r)
        \/ Alone(r) /\ ReplacePlaceholders(r)
        \/ Alone(r) /\ OpenOutput(r)
        \/ Alone(r) /\ OpenOutputFail(r)
        \/ Alone(r) /\ WriteOutput(r)
SpecSeq == InitRuns /\ [][NextSeq]_vars

\* Two runs started together, their steps interleaved in any way.
NextRace == \E r \in Runs : Step(r)
SpecRace == InitRuns /\ [][NextRace]_vars

\* ------------------------------------------------- what the claims speak of

\* The team names of a frame.
TeamsIn(d) == {d[i].HOME[1] : i \in 1..Len(d)} \cup {d[i].AWAY[1] : i \in 1..Len(d)}

\* The records of a frame in which team t plays, by place.
RecordsOf(d, t) == {i \in 1..Len(d) : d[i].HOME = Val(t) \/ d[i].AWAY = Val(t)}

Scored(rec, t) == IF rec.HOME = Val(t) THEN rec.H_GOALS ELSE rec.A_GOALS
Conceded(rec, t) == IF rec.HOME = Val(t) THEN rec.A_GOALS ELSE rec.H_GOALS
GoalsOr0(c) == IF IsNaN(c) THEN 0 ELSE c[1]

RECURSIVE TotalOver(_, _, _, _)
\* The goals team t scored (side = "for") or conceded in records 1..n of d.
TotalOver(d, t, side, n) ==
    IF n = 0 THEN 0
    ELSE TotalOver(d, t, side, n - 1)
         + (IF d[n].HOME = Val(t) \/ d[n].AWAY = Val(t)
            THEN GoalsOr0(IF side = "for" THEN Scored(d[n], t) ELSE Conceded(d[n], t))
            ELSE 0)

\* The records in which t scored strictly more than its opponent.
WonBy(d, t) ==
    {i \in RecordsOf(d, t) :
        /\ ~IsNaN(Scored(d[i], t))
        /\ ~IsNaN(Conceded(d[i], t))
        /\ Scored(d[i], t)[1] > Conceded(d[i], t)[1]}

\* The rows of a summary that name team t, by place.
RowsOf(ts, t) == {i \in 1..Len(ts) : ts[i].TEAM = t}

\* The four counts of team t in a summary; all 0 when no row names t.
StatsOf(ts, t) ==
    IF RowsOf(ts, t) = {} THEN <<0, 0, 0, 0>>
    ELSE LET row == ts[CHOOSE i \in RowsOf(ts, t) : TRUE]
         IN  <<row.matches_played, row.total_goals_for, row.total_goals_against, row.total_wins>>

HasGoals(rec) == ~IsNaN(rec.H_GOALS) /\ ~IsNaN(rec.A_GOALS)
\* The frame without its records that miss a goal value.
CompleteOnly(d) == SelectSeq(d, HasGoals)
\* The frame with 0 in place of every missing goal value.
GoalsFilled(d) ==
    [i \in 1..Len(d) |->
        [d[i] EXCEPT !.H_GOALS = Val(GoalsOr0(d[i].H_GOALS)), !.A_GOALS = Val(GoalsOr0(d[i].A_GOALS))]]

\* a is strictly greater than b, as numbers; NaN is greater than nothing and
\* nothing is greater than NaN.
Exceeds(a, b) ==
    \/ a.k = "inf" /\ b.k = "fin"
    \/ a.k = "fin" /\ b.k = "fin" /\ a.v > b.v

Aggregated == pc[1] = "processed"

\* C1: for every team T of the input, the summary holds a row for T whose
\* matches_played is the number of records T plays in, whose goal totals are
\* the goals T scored and conceded in them, and whose total_wins is the number
\* of them in which T scored strictly more than its opponent.
C1_SummaryCountsEveryRecord ==
    Aggregated =>
        \A t \in TeamsIn(df[1]) :
            \E i \in RowsOf(team_summary[1], t) :
                /\ team_summary[1][i].matches_played = Cardinality(RecordsOf(df[1], t))
                /\ team_summary[1][i].total_goals_for = TotalOver(df[1], t, "for", Len(df[1]))
                /\ team_summary[1][i].total_goals_against = TotalOver(df[1], t, "against", Len(df[1]))
                /\ team_summary[1][i].total_wins = Cardinality(WonBy(df[1], t))

\* C2: every team name of the input is in exactly one row of the summary, and
\* every row of the summary names a team of the input.
C2_OneRowPerTeam ==
    Aggregated =>
        /\ \A t \in TeamsIn(df[1]) : Cardinality(RowsOf(team_summary[1], t)) = 1
        /\ \A i \in 1..Len(team_summary[1]) : team_summary[1][i].TEAM \in TeamsIn(df[1])

\* C2's case: two records that share a team, three teams in all.
C2_Witness ==
    /\ Aggregated
    /\ Len(df[1]) = 2
    /\ df[1][1].HOME \in {df[1][2].HOME, df[1][2].AWAY}
    /\ Cardinality(TeamsIn(df[1])) = 3
    /\ Len(team_summary[1]) = 3

\* C3: in every row of the summary total_wins <= matches_played and the win
\* rate is a number from 0 to 1.
C3_WinsAndRateInRange ==
    Aggregated =>
        \A i \in 1..Len(team_summary[1]) :
            /\ team_summary[1][i].total_wins <= team_summary[1][i].matches_played
            /\ team_summary[1][i].win_rate.k = "fin"
            /\ team_summary[1][i].win_rate.v \in 0..100

\* C4: the one finding names a team of the summary whose win rate no other
\* row's win rate strictly exceeds, and reports that team's own win rate.
C4_FindingNamesAMaximum ==
    Aggregated =>
        /\ Len(findings[1]) = 1
        /\ \E i \in 1..Len(team_summary[1]) :
              /\ findings[1][1] = FindingText(team_summary[1][i].TEAM, team_summary[1][i].win_rate)
              /\ \A j \in 1..Len(team_summary[1]) :
                    ~Exceeds(team_summary[1][j].win_rate, team_summary[1][i].win_rate)

\* C4's case: three rows, the last one above the first, and the finding names
\* the last.
C4_Witness ==
    /\ Aggregated
    /\ Len(team_summary[1]) = 3
    /\ Exceeds(team_summary[1][3].win_rate, team_summary[1][1].win_rate)
    /\ Exceeds(team_summary[1][3].win_rate, team_summary[1][2].win_rate)
    /\ findings[1] = <<FindingText(team_summary[1][3].TEAM, team_summary[1][3].win_rate)>>

\* C7, as claimed: a record that misses a goal value adds nothing to any count
\* of its two teams: the counts are those of the frame without such records.
C7_MissingGoalsExcluded ==
    Aggregated =>
        \A t \in Teams :
            StatsOf(team_summary[1], t) = StatsOf(TeamSummary(CompleteOnly(df[1])), t)

\* C7, amended: a record that misses a goal value is not excluded.  It counts
\* in matches_played as it would with the value present, the goal value it
\* does hold is added to the totals, the missing one adds nothing, and it is a
\* win for neither team.
C7_MissingGoalsCounted ==
    Aggregated =>
        LET filled == TeamSummary(GoalsFilled(df[1]))
        IN  \A t \in TeamsIn(df[1]) :
                \E i \in RowsOf(team_summary[1], t) :
                    /\ team_summary[1][i].matches_played = StatsOf(filled, t)[1]
                    /\ team_summary[1][i].total_goals_for = TotalOver(df[1], t, "for", Len(df[1]))
                    /\ team_summary[1][i].total_goals_against
                           = TotalOver(df[1], t, "against", Len(df[1]))
                    /\ team_summary[1][i].total_wins = Cardinality(WonBy(df[1], t))

\* C7's case: a record without its home goals in which the away side scored.
C7_Witness ==
    /\ Aggregated
    /\ \E i \in 1..Len(df[1]) :
          /\ IsNaN(df[1][i].H_GOALS)
          /\ df[1][i].A_GOALS = Val(1)
          /\ StatsOf(team_summary[1], df[1][i].AWAY[1])[2] >= 1

\* C8: every row of the summary has matches_played > 0.
C8_EveryTeamHasPlayed ==
    Aggregated =>
        \A i \in 1..Len(team_summary[1]) : team_summary[1][i].matches_played > 0

\* C5, as claimed: the written document holds none of the three tokens.
C5_NoTokenLeft ==
    pc[1] = "done" => ~ContainsToken(fs[OUTPUT_PATH])

\* No team name of the summary and no finding holds a token, and neither the
\* summary nor the list of findings is empty.
CleanArguments(r) ==
    /\ team_summary[r] # <<>>
    /\ findings[r] # <<>>
    /\ \A i \in 1..Len(team_summary[r]) : ~ContainsToken(team_summary[r][i].TEAM)
    /\ \A i \in 1..Len(findings[r]) : ~ContainsToken(findings[r][i])

\* C5, amended: for every template that holds the three tokens, and for every
\* non-empty summary and non-empty list of findings in which no team name and
\* no finding holds a token, the written document holds none of the tokens.
C5_NoTokenLeftWhenArgumentsClean ==
    (pc[1] = "done" /\ CleanArguments(1)) => ~ContainsToken(fs[OUTPUT_PATH])

\* C5's case: a template with a token twice, rendered and written.
C5_Witness ==
    /\ pc[1] = "done"
    /\ CleanArguments(1)
    /\ \E tok \in Tokens : Cardinality(Hits(template0, tok, 1)) >= 2
    /\ Contains(fs[OUTPUT_PATH], team_summary_rows[1])

\* C6: after every successful run the output file holds the rows and the
\* finding of that run, and the template still holds its three tokens.
C6_EachRunRendersItsOwnData ==
    \A r \in Runs :
        (pc[r] = "done" /\ last = r /\ Alone(r)) =>
            /\ Contains(fs[OUTPUT_PATH], team_summary_rows[r])
            /\ Contains(fs[OUTPUT_PATH], interesting_findings[r])
            /\ \A tok \in Tokens : Contains(fs[TEMPLATE_PATH], tok)

\* C9: a run that fails in the fetch, in the aggregation or in reading the
\* template has not written, leaves the output file with the text it had when
\* the run began, and never takes another step.
C9_FailedRunLeavesOutputAlone ==
    [][\A r \in Runs :
          /\ (pc[r] \notin EarlyFailures /\ pc'[r] \in EarlyFailures)
                => (fs'[OUTPUT_PATH] = before'[r] /\ last' # r /\ pc[r] \notin {"opened", "done"})
          /\ (pc[r] \in Failures => pc'[r] = pc[r])]_vars

\* C9's case: after a run that wrote, a run fails reading the template.
C9_Witness ==
    /\ pc[1] = "done"
    /\ pc[2] = "failed_template"
    /\ fs[OUTPUT_PATH] = before[2]
    /\ fs[OUTPUT_PATH] # template0

\* C10: when both runs have ended, the output file holds the complete
\* document of the run that wrote last: the template with that run's rows and
\* findings in it.
C10_LastWriterWins ==
    ((\A r \in Runs : pc[r] \in Ended) /\ last # 0) =>
        \E timestamp \in Timestamps :
            fs[OUTPUT_PATH] = Substitute(template0, timestamp, team_summary_rows[last],
                                         interesting_findings[last])

=============================================================================
